---- MODULE Spec2Model ----
(***************************************************************************)
(* A model of script.py, the benchmarking harness that builds two planners *)
(* (SAT with Maven, HSP with Gradle), runs both on the first problem files *)
(* of each benchmark domain, and plots runtime and makespan per domain.    *)
(*                                                                         *)
(* Python's None is the empty tuple, a present value v is <<v>>.  A file   *)
(* name or an output text is a sequence of one-character strings.          *)
(***************************************************************************)
EXTENDS Integers, Sequences, FiniteSets, TLC

VARIABLES
    pc,             \* position of the single control thread
    exit_status,    \* None while running, <<n>> once the process has exited
    compile_result, \* "pending", "True", "False", or "raised" (uncaught error)
    listing,        \* the file system: domain name -> set of names in its directory
    domain_idx,     \* position of the loop over BENCHMARKS.items()
    domain_name,    \* compare_domain's argument
    problem_files,  \* compare_domain's local
    prob_idx,       \* position of the loop over problem_files
    results,        \* compare_domain's local: [HSP |-> seq, SAT |-> seq]
    hsp_ret,        \* (hsp_runtime, hsp_makespan) of the current problem
    child,          \* number of planner child processes alive
    calls,          \* every subprocess.run of run_planner so far, in order
    ALL_RESULTS,    \* the registry: a dict as a sequence of [key, value] in insertion order
    plot_idx,       \* position of plot_results' loop over ALL_RESULTS.items()
    figures,        \* image files written by plt.savefig
    charts,         \* the series handed to plt.plot, per plotted domain
    last_run,       \* what the system and the child did in the latest run_planner call
    last_ret,       \* what the latest run_planner call returned
    returns,        \* every return of run_planner so far, in order
    output,         \* extract_makespan's argument
    parsed          \* extract_makespan's return value

vars == <<pc, exit_status, compile_result, listing, domain_idx, domain_name,
          problem_files, prob_idx, results, hsp_ret, child, calls, ALL_RESULTS,
          plot_idx, figures, charts, last_run, last_ret, returns, output, parsed>>

None == << >>

Some(v) == <<v>>

(***************************************************************************)
(* Bounds of the model.                                                    *)
(***************************************************************************)
MaxProblems == 2      \* problem files in the whole benchmark tree of a full run

MaxLen == 6           \* characters of a planner output given to extract_makespan

MaxPlotProblems == 3  \* problems of the domain plot_results is checked on

MaxRuntime == 2       \* distinct measured HSP runtimes plot_results is checked on

(***************************************************************************)
(* Program constants.                                                      *)
(***************************************************************************)
BENCHMARKS == <<"blocksworld", "depot", "gripper", "logistics">>

domain_limits == [blocksworld |-> 10, gripper |-> 4, depot |-> 2, logistics |-> 2]

DefaultLimit == 5

TIMEOUT == 600

(***************************************************************************)
(* Characters and their code points (Python compares str by code point).   *)
(***************************************************************************)
Digits == {"0", "1", "3"}

Ord(c) ==
    CASE c = "\n" -> 10
      [] c = " " -> 32
      [] c = "0" -> 48
      [] c = "1" -> 49
      [] c = "2" -> 50
      [] c = "3" -> 51
      [] c = ":" -> 58
      [] c = "P" -> 80
      [] c = "d" -> 100
      [] c = "p" -> 112
      [] c = "s" -> 115

DigitValue(c) == Ord(c) - 48

Min(a, b) == IF a <= b THEN a ELSE b

\* a < b for two Python strings
StrLess(a, b) ==
    \E k \in 1 .. Min(Len(a), Len(b)) + 1 :
        /\ \A i \in 1 .. k - 1 : a[i] = b[i]
        /\ IF k > Len(a) THEN k <= Len(b)
           ELSE k <= Len(b) /\ Ord(a[k]) < Ord(b[k])

(***************************************************************************)
(* extract_makespan (script.py 125-136) and the str methods it calls.      *)
(***************************************************************************)
LineBreaks == {"\n"}

Whitespace == {" ", "\n"}

RECURSIVE SplitFrom(_, _, _)
SplitFrom(s, i, cur) ==
    IF i > Len(s) THEN (IF cur = << >> THEN << >> ELSE <<cur>>)
    ELSE IF s[i] \in LineBreaks THEN <<cur>> \o SplitFrom(s, i + 1, << >>)
    ELSE SplitFrom(s, i + 1, Append(cur, s[i]))

\* output.splitlines()
splitlines(s) == SplitFrom(s, 1, << >>)

RECURSIVE lstrip(_)
lstrip(s) == IF s # << >> /\ Head(s) \in Whitespace THEN lstrip(Tail(s)) ELSE s

RECURSIVE rstrip(_)
rstrip(s) ==
    IF s # << >> /\ s[Len(s)] \in Whitespace THEN rstrip(SubSeq(s, 1, Len(s) - 1)) ELSE s

\* line.strip()
strip(s) == rstrip(lstrip(s))

RECURSIVE DigitRun(_, _)
\* the number of characters the greedy \d+ consumes from position i on
DigitRun(s, i) == IF i <= Len(s) /\ s[i] \in Digits THEN 1 + DigitRun(s, i + 1) ELSE 0

\* step_pattern.match(s): None, or <<group 1>>
step_pattern_match(s) ==
    LET n == DigitRun(s, 1)
    IN IF n >= 1 /\ n < Len(s) /\ s[n + 1] = ":" THEN Some(SubSeq(s, 1, n)) ELSE None

RECURSIVE int(_)
\* int(match.group(1)) on a string of decimal digits
int(s) == IF s = << >> THEN 0 ELSE 10 * int(SubSeq(s, 1, Len(s) - 1)) + DigitValue(s[Len(s)])

RECURSIVE ScanLines(_, _, _)
\* the for loop of extract_makespan from line i on; returns the final max_step
ScanLines(lines, i, max_step) ==
    IF i > Len(lines) THEN max_step
    ELSE LET match == step_pattern_match(strip(lines[i]))
         IN IF match # None
            THEN LET step_num == int(match[1])
                 IN ScanLines(lines, i + 1, IF step_num > max_step THEN step_num ELSE max_step)
            ELSE ScanLines(lines, i + 1, max_step)

\* MakespanOf with max_step > 0 for max_step >= 0: a plan whose only label is 0 is lost
MakespanOfPositive(max_step) == IF max_step > 0 THEN Some(max_step + 1) ELSE None

MakespanOf(max_step) == IF max_step >= 0 THEN Some(max_step + 1) ELSE None

extract_makespan(text) == MakespanOf(ScanLines(splitlines(text), 1, -1))

(***************************************************************************)
(* The selection of compare_domain (script.py 141-148).                    *)
(***************************************************************************)
\* domain_limits.get(domain_name, 5)
LimitOf(name) == IF name \in DOMAIN domain_limits THEN domain_limits[name] ELSE DefaultLimit

\* f.startswith("p")
startswith_p(f) == Len(f) >= 1 /\ f[1] = "p"

\* sorted(...) of distinct strings, given as a set (os.listdir's order is arbitrary):
\* the string with k - 1 smaller ones comes k-th
sorted(S) ==
    [k \in 1 .. Cardinality(S) |->
        CHOOSE x \in S : Cardinality({y \in S : StrLess(y, x)}) = k - 1]

\* Slice with seq[:limit + 1] for seq[:limit]
SliceOneMore(seq, limit) == SubSeq(seq, 1, Min(limit + 1, Len(seq)))

\* seq[:limit] for limit >= 0
Slice(seq, limit) == SubSeq(seq, 1, Min(limit, Len(seq)))

SelectProblemFiles(name, files) ==
    Slice(sorted({f \in files : startswith_p(f)}), LimitOf(name))

(***************************************************************************)
(* run_planner (script.py 80-123).  A call is decided by what the          *)
(* operating system and the child do: whether the executable is found, how *)
(* long the child runs, its exit status, whether its stdout decodes, and   *)
(* the text it printed.                                                    *)
(***************************************************************************)
\* what subprocess.run and .decode() do: "FileNotFoundError", "TimeoutExpired",
\* "UnicodeDecodeError", or "completed"
RunOutcome(found, duration, decodes) ==
    IF ~found THEN "FileNotFoundError"
    ELSE IF duration > TIMEOUT THEN "TimeoutExpired"
    ELSE IF ~decodes THEN "UnicodeDecodeError"
    ELSE "completed"

\* run_planner_return without the except Exception clause: only the timeout is caught
run_planner_return_uncaught(found, duration, returncode, decodes, text) ==
    LET outcome == RunOutcome(found, duration, decodes)
    IN IF outcome = "completed"
       THEN [raised |-> FALSE, runtime |-> Some(duration), makespan |-> extract_makespan(text)]
       ELSE IF outcome = "TimeoutExpired"
       THEN [raised |-> FALSE, runtime |-> None, makespan |-> None]
       ELSE [raised |-> TRUE, runtime |-> None, makespan |-> None]

\* run_planner_return with the timeout handler returning the elapsed time
run_planner_return_elapsed(found, duration, returncode, decodes, text) ==
    LET outcome == RunOutcome(found, duration, decodes)
    IN IF outcome = "completed"
       THEN [raised |-> FALSE, runtime |-> Some(duration), makespan |-> extract_makespan(text)]
       ELSE IF outcome = "TimeoutExpired"
       THEN [raised |-> FALSE, runtime |-> Some(duration), makespan |-> None]
       ELSE [raised |-> FALSE, runtime |-> None, makespan |-> None]

\* the value run_planner returns; raised is TRUE when an error leaves run_planner
run_planner_return(found, duration, returncode, decodes, text) ==
    LET outcome == RunOutcome(found, duration, decodes)
    IN IF outcome = "completed"
       THEN [raised |-> FALSE, runtime |-> Some(duration), makespan |-> extract_makespan(text)]
       ELSE IF outcome = "TimeoutExpired"
       THEN [raised |-> FALSE, runtime |-> None, makespan |-> None]   \* except TimeoutExpired
       ELSE [raised |-> FALSE, runtime |-> None, makespan |-> None]   \* except Exception

(***************************************************************************)
(* compile_projects (script.py 26-78) and the exit of __main__ (208-210).  *)
(***************************************************************************)
BuildOutcomes == {"ok", "CalledProcessError", "OSError"}

\* the Maven step: "continue" to the Gradle step, return False, or an uncaught error
SatBuildResult(outcome) ==
    IF outcome = "ok" THEN "continue"
    ELSE IF outcome = "CalledProcessError" THEN "False"
    ELSE "raised"

\* the Gradle step: what compile_projects returns
HspBuildResult(wrapper_exists, outcome) ==
    IF ~wrapper_exists THEN "False"
    ELSE IF outcome = "ok" THEN "True"
    ELSE "False"

\* GoesOn with the False of compile_projects() taken for success
GoesOnUnchecked(result) == result # "raised"

\* if not compile_projects(): exit(1); an uncaught error also ends the process
\* with status 1
GoesOn(result) == result = "True"

(***************************************************************************)
(* plot_results (script.py 163-204).  A result is <<problem_file, runtime, *)
(* makespan>>.                                                             *)
(***************************************************************************)
\* SortKey with 0 standing for a missing runtime: (x[1] or 0)
SortKeyZero(x) == IF x[2] = None THEN Some(0) ELSE x[2]

\* the sort key: x[1] if x[1] is not None else float("inf"); None stands for inf
SortKey(x) == x[2]

\* a < b for two sort keys
KeyLess(a, b) == a # None /\ (b = None \/ a[1] < b[1])

\* sorted(seq, key=...): Python's sort is stable, so seq[i] comes before seq[j]
\* exactly when its key is less, or the keys are equal and i < j
ComesBefore(seq, i, j) ==
    \/ KeyLess(SortKey(seq[i]), SortKey(seq[j]))
    \/ ~KeyLess(SortKey(seq[j]), SortKey(seq[i])) /\ i < j

sorted_by_runtime(seq) ==
    [k \in 1 .. Len(seq) |->
        seq[CHOOSE i \in 1 .. Len(seq) :
               Cardinality({j \in 1 .. Len(seq) : ComesBefore(seq, j, i)}) = k - 1]]

\* sat_dict[name] of {x[0]: x for x in results["SAT"]}: the last entry of that name
\* (None when name is not in sat_dict)
SatEntry(sat, name) ==
    LET at == {j \in 1 .. Len(sat) : sat[j][1] = name}
    IN IF at = {} THEN None ELSE Some(sat[CHOOSE j \in at : \A k \in at : k <= j])

\* sat_dict[name][field] if name in sat_dict else None
SatField(sat, name, field) ==
    IF SatEntry(sat, name) = None THEN None ELSE SatEntry(sat, name)[1][field]

\* the five lists plot_results hands to plt.plot for one domain
PlotSeries(res) ==
    LET sorted_hsp == sorted_by_runtime(res.HSP)
        problem_names == [i \in 1 .. Len(sorted_hsp) |-> sorted_hsp[i][1]]
    IN [problem_names |-> problem_names,
        hsp_runtimes  |-> [i \in 1 .. Len(sorted_hsp) |-> sorted_hsp[i][2]],
        sat_runtimes  |-> [i \in 1 .. Len(sorted_hsp) |-> SatField(res.SAT, problem_names[i], 2)],
        hsp_makespans |-> [i \in 1 .. Len(sorted_hsp) |-> sorted_hsp[i][3]],
        sat_makespans |-> [i \in 1 .. Len(sorted_hsp) |-> SatField(res.SAT, problem_names[i], 3)]]

\* FiguresOf with both charts saved under the runtime chart's name
FiguresOfOneName(name) == {<<name, "runtime">>}

\* the files of one domain: figures/{domain_name}_runtime.png and _makespan.png
FiguresOf(name) == {<<name, "runtime">>, <<name, "makespan">>}

\* ALL_RESULTS[key] = value on an insertion-ordered dict
DictSet(d, key, value) ==
    IF \E i \in 1 .. Len(d) : d[i].key = key
    THEN [i \in 1 .. Len(d) |-> IF d[i].key = key THEN [key |-> key, value |-> value] ELSE d[i]]
    ELSE Append(d, [key |-> key, value |-> value])

(***************************************************************************)
(* The environment of a full run.                                          *)
(***************************************************************************)
ProblemNames ==
    << <<"p", "0", "1">>, <<"p", "0", "2">>, <<"p", "0", "3">>,
       <<"p", "0", "4">>, <<"p", "0", "5">>, <<"p", "0", "6">> >>

DomainFile == <<"d", "o", "m", "a", "i", "n", ".", "p", "d", "d", "l">>

DomainNames == {BENCHMARKS[i] : i \in 1 .. Len(BENCHMARKS)}

\* a directory with domain.pddl and its first n problem files
DirectoryOf(n) == {DomainFile} \cup {ProblemNames[i] : i \in 1 .. n}

\* the benchmark trees: at most MaxProblems problem files in all
Listings ==
    {[d \in DomainNames |-> DirectoryOf(n[d])] :
        n \in {m \in [DomainNames -> 0 .. MaxProblems] :
                  m["blocksworld"] + m["depot"] + m["gripper"] + m["logistics"] <= MaxProblems}}

\* what a planner prints: no plan, or a plan of two steps
PlannerOutputs == {<<"s">>, <<"0", ":", " ", "s", "\n", "1", ":", " ", "s">>}

NoRet == [raised |-> FALSE, runtime |-> None, makespan |-> None]

NoRun == [planner |-> "", problem |-> << >>, found |-> FALSE, duration |-> 0,
          returncode |-> 0, decodes |-> FALSE, text |-> << >>]

\* the executable is missing: no child runs
RunNotFound == [found |-> FALSE, duration |-> 0, returncode |-> 0, decodes |-> FALSE, text |-> << >>]

\* what a spawned child can do: run past the timeout and be killed, or exit in time
\* with status 0 or 1 and stdout that decodes to a text or does not decode
ChildRuns ==
    {[found |-> TRUE, duration |-> TIMEOUT + 1, returncode |-> 0, decodes |-> FALSE, text |-> << >>]}
    \cup {[found |-> TRUE, duration |-> 1, returncode |-> rc, decodes |-> FALSE, text |-> << >>] :
             rc \in {0, 1}}
    \cup {[found |-> TRUE, duration |-> 1, returncode |-> rc, decodes |-> TRUE, text |-> t] :
             rc \in {0, 1}, t \in PlannerOutputs}

EmptyResults == [HSP |-> << >>, SAT |-> << >>]

Init ==
    /\ pc = "compile_sat"
    /\ exit_status = None
    /\ compile_result = "pending"
    /\ listing \in Listings
    /\ domain_idx = 1
    /\ domain_name = ""
    /\ problem_files = << >>
    /\ prob_idx = 1
    /\ results = EmptyResults
    /\ hsp_ret = NoRet
    /\ child = 0
    /\ calls = << >>
    /\ ALL_RESULTS = << >>
    /\ plot_idx = 1
    /\ figures = {}
    /\ charts = << >>
    /\ last_run = NoRun
    /\ last_ret = NoRet
    /\ returns = << >>
    /\ output = << >>
    /\ parsed = None

(***************************************************************************)
(* __main__ and compile_projects.                                          *)
(***************************************************************************)
\* script.py 28-40: mvn compile
CompileSat ==
    /\ pc = "compile_sat"
    /\ \E outcome \in BuildOutcomes :
          LET r == SatBuildResult(outcome)
          IN IF r = "continue"
             THEN pc' = "compile_hsp" /\ UNCHANGED compile_result
             ELSE pc' = "main_check" /\ compile_result' = r
    /\ UNCHANGED <<exit_status, listing, domain_idx, domain_name, problem_files, prob_idx,
                   results, hsp_ret, child, calls, ALL_RESULTS, plot_idx, figures, charts,
                   last_run, last_ret, returns, output, parsed>>

\* script.py 42-78: gradlew build
CompileHsp ==
    /\ pc = "compile_hsp"
    /\ \E wrapper_exists \in BOOLEAN, outcome \in BuildOutcomes :
          compile_result' = HspBuildResult(wrapper_exists, outcome)
    /\ pc' = "main_check"
    /\ UNCHANGED <<exit_status, listing, domain_idx, domain_name, problem_files, prob_idx,
                   results, hsp_ret, child, calls, ALL_RESULTS, plot_idx, figures, charts,
                   last_run, last_ret, returns, output, parsed>>

\* script.py 208-210
MainAfterCompile ==
    /\ pc = "main_check"
    /\ IF GoesOn(compile_result)
       THEN pc' = "for_domain" /\ UNCHANGED exit_status
       ELSE pc' = "exited" /\ exit_status' = Some(1)
    /\ UNCHANGED <<compile_result, listing, domain_idx, domain_name, problem_files, prob_idx,
                   results, hsp_ret, child, calls, ALL_RESULTS, plot_idx, figures, charts,
                   last_run, last_ret, returns, output, parsed>>

\* script.py 213-214: the next item of BENCHMARKS
MainNextDomain ==
    /\ pc = "for_domain"
    /\ domain_idx <= Len(BENCHMARKS)
    /\ domain_name' = BENCHMARKS[domain_idx]
    /\ pc' = "compare_domain"
    /\ UNCHANGED <<exit_status, compile_result, listing, domain_idx, problem_files, prob_idx,
                   results, hsp_ret, child, calls, ALL_RESULTS, plot_idx, figures, charts,
                   last_run, last_ret, returns, output, parsed>>

\* script.py 215: the loop is over, plot_results() starts
MainPlot ==
    /\ pc = "for_domain"
    /\ domain_idx > Len(BENCHMARKS)
    /\ pc' = "plot"
    /\ plot_idx' = 1
    /\ UNCHANGED <<exit_status, compile_result, listing, domain_idx, domain_name, problem_files,
                   prob_idx, results, hsp_ret, child, calls, ALL_RESULTS, figures, charts,
                   last_run, last_ret, returns, output, parsed>>

(***************************************************************************)
(* compare_domain (script.py 138-161) and its calls of run_planner.        *)
(***************************************************************************)
\* script.py 139-149
CompareDomainBegin ==
    /\ pc = "compare_domain"
    /\ problem_files' = SelectProblemFiles(domain_name, listing[domain_name])
    /\ results' = EmptyResults
    /\ prob_idx' = 1
    /\ pc' = "for_problem"
    /\ UNCHANGED <<exit_status, compile_result, listing, domain_idx, domain_name, hsp_ret,
                   child, calls, ALL_RESULTS, plot_idx, figures, charts, last_run, last_ret,
                   returns, output, parsed>>

\* AppendResults with a missing runtime stored as 0
AppendResultsZero(res, problem_file, hsp, sat) ==
    [HSP |-> Append(res.HSP, <<problem_file,
                               IF hsp.runtime = None THEN Some(0) ELSE hsp.runtime, hsp.makespan>>),
     SAT |-> Append(res.SAT, <<problem_file,
                               IF sat.runtime = None THEN Some(0) ELSE sat.runtime, sat.makespan>>)]

\* AppendResults with insert(0, ...) for append(...)
AppendResultsFront(res, problem_file, hsp, sat) ==
    [HSP |-> <<<<problem_file, hsp.runtime, hsp.makespan>>>> \o res.HSP,
     SAT |-> <<<<problem_file, sat.runtime, sat.makespan>>>> \o res.SAT]

\* script.py 158-159
AppendResults(res, problem_file, hsp, sat) ==
    [HSP |-> Append(res.HSP, <<problem_file, hsp.runtime, hsp.makespan>>),
     SAT |-> Append(res.SAT, <<problem_file, sat.runtime, sat.makespan>>)]

\* run_planner returns to compare_domain (script.py 155-159); an error that left
\* run_planner would end the process with status 1
Return(planner, run) ==
    LET ret == run_planner_return(run.found, run.duration, run.returncode, run.decodes, run.text)
    IN /\ last_run' = [planner |-> planner, problem |-> problem_files[prob_idx],
                       found |-> run.found, duration |-> run.duration,
                       returncode |-> run.returncode, decodes |-> run.decodes, text |-> run.text]
       /\ last_ret' = ret
       /\ returns' = Append(returns, <<planner, domain_name, problem_files[prob_idx],
                                       ret.runtime, ret.makespan>>)
       /\ child' = 0
       /\ IF ret.raised
          THEN /\ pc' = "exited"
               /\ exit_status' = Some(1)
               /\ UNCHANGED <<hsp_ret, results, prob_idx>>
          ELSE IF planner = "HSP"
          THEN /\ pc' = "sat_call"
               /\ hsp_ret' = ret
               /\ UNCHANGED <<exit_status, results, prob_idx>>
          ELSE /\ pc' = "for_problem"
               /\ results' = AppendResults(results, problem_files[prob_idx], hsp_ret, ret)
               /\ prob_idx' = prob_idx + 1
               /\ UNCHANGED <<exit_status, hsp_ret>>

\* script.py 81-109: subprocess.run spawns the child, or finds no executable
Spawn(planner, at, waiting) ==
    /\ pc = at
    /\ calls' = Append(calls, <<planner, domain_name, problem_files[prob_idx]>>)
    /\ \E found \in BOOLEAN :
          IF found
          THEN /\ pc' = waiting
               /\ child' = child + 1
               /\ UNCHANGED <<exit_status, hsp_ret, results, prob_idx, last_run, last_ret, returns>>
          ELSE Return(planner, RunNotFound)
    /\ UNCHANGED <<compile_result, listing, domain_idx, domain_name, problem_files,
                   ALL_RESULTS, plot_idx, figures, charts, output, parsed>>

\* script.py 103-123: the child exits or is killed at the timeout
Wait(planner, waiting) ==
    /\ pc = waiting
    /\ \E run \in ChildRuns : Return(planner, run)
    /\ UNCHANGED <<compile_result, listing, domain_idx, domain_name, problem_files, calls,
                   ALL_RESULTS, plot_idx, figures, charts, output, parsed>>

\* script.py 151-155
SpawnHSP == prob_idx <= Len(problem_files) /\ Spawn("HSP", "for_problem", "hsp_wait")

WaitHSP == Wait("HSP", "hsp_wait")

\* script.py 156
SpawnSAT == Spawn("SAT", "sat_call", "sat_wait")

WaitSAT == Wait("SAT", "sat_wait")

\* script.py 161
CompareDomainEnd ==
    /\ pc = "for_problem"
    /\ prob_idx > Len(problem_files)
    /\ ALL_RESULTS' = DictSet(ALL_RESULTS, domain_name, results)
    /\ domain_idx' = domain_idx + 1
    /\ pc' = "for_domain"
    /\ UNCHANGED <<exit_status, compile_result, listing, domain_name, problem_files, prob_idx,
                   results, hsp_ret, child, calls, plot_idx, figures, charts, last_run,
                   last_ret, returns, output, parsed>>

(***************************************************************************)
(* plot_results (script.py 163-204), one domain of ALL_RESULTS at a time.  *)
(***************************************************************************)
PlotDomain ==
    /\ pc = "plot"
    /\ plot_idx <= Len(ALL_RESULTS)
    /\ charts' = Append(charts, [domain_name |-> ALL_RESULTS[plot_idx].key,
                                 series |-> PlotSeries(ALL_RESULTS[plot_idx].value)])
    /\ figures' = figures \cup FiguresOf(ALL_RESULTS[plot_idx].key)
    /\ plot_idx' = plot_idx + 1
    /\ UNCHANGED <<pc, exit_status, compile_result, listing, domain_idx, domain_name,
                   problem_files, prob_idx, results, hsp_ret, child, calls, ALL_RESULTS,
                   last_run, last_ret, returns, output, parsed>>

\* script.py 216: the script ends, the process exits with status 0
MainEnd ==
    /\ pc = "plot"
    /\ plot_idx > Len(ALL_RESULTS)
    /\ pc' = "exited"
    /\ exit_status' = Some(0)
    /\ UNCHANGED <<compile_result, listing, domain_idx, domain_name, problem_files, prob_idx,
                   results, hsp_ret, child, calls, ALL_RESULTS, plot_idx, figures, charts,
                   last_run, last_ret, returns, output, parsed>>

Next ==
    \/ CompileSat
    \/ CompileHsp
    \/ MainAfterCompile
    \/ MainNextDomain
    \/ CompareDomainBegin
    \/ SpawnHSP
    \/ WaitHSP
    \/ SpawnSAT
    \/ WaitSAT
    \/ CompareDomainEnd
    \/ MainPlot
    \/ PlotDomain
    \/ MainEnd

Spec == Init /\ [][Next]_vars

\* the interpreter runs the single thread on: no step that can be taken is put off
\* for ever
FairSpec == Spec /\ WF_vars(Next)

(***************************************************************************)
(* extract_makespan on its own, on every text of at most MaxLen characters.*)
(***************************************************************************)
Alphabet == {"0", "1", "3", ":", " ", "\n", "s"}

NoFiles == [d \in DomainNames |-> DirectoryOf(0)]

InitParse ==
    /\ pc = "extract_makespan"
    /\ \E n \in 0 .. MaxLen : output \in [1 .. n -> Alphabet]
    /\ parsed = None
    /\ exit_status = None
    /\ compile_result = "True"
    /\ listing = NoFiles
    /\ domain_idx = 1
    /\ domain_name = ""
    /\ problem_files = << >>
    /\ prob_idx = 1
    /\ results = EmptyResults
    /\ hsp_ret = NoRet
    /\ child = 0
    /\ calls = << >>
    /\ ALL_RESULTS = << >>
    /\ plot_idx = 1
    /\ figures = {}
    /\ charts = << >>
    /\ last_run = NoRun
    /\ last_ret = NoRet
    /\ returns = << >>

\* script.py 113: makespan = extract_makespan(output)
ExtractMakespan ==
    /\ pc = "extract_makespan"
    /\ parsed' = extract_makespan(output)
    /\ pc' = "returned"
    /\ UNCHANGED <<exit_status, compile_result, listing, domain_idx, domain_name, problem_files,
                   prob_idx, results, hsp_ret, child, calls, ALL_RESULTS, plot_idx, figures,
                   charts, last_run, last_ret, returns, output>>

NextParse == ExtractMakespan

SpecParse == InitParse /\ [][NextParse]_vars

(***************************************************************************)
(* The selection of compare_domain on its own: any domain name, configured *)
(* or not, and any directory made of the names of FilePool.                *)
(***************************************************************************)
FilePool ==
    { <<"p">>, <<"p", "0", "1">>, <<"p", "0", "2">>, <<"p", "1">>, <<"p", "1", "0">>,
      <<"p", "2">>, <<"p", "d">>, DomainFile, <<"P", "0", "1">> }

SelectDomains == DomainNames \cup {"rovers"}

InitSelect ==
    /\ pc = "compare_domain"
    /\ domain_name \in SelectDomains
    /\ \E files \in SUBSET FilePool : listing = [d \in {domain_name} |-> files]
    /\ exit_status = None
    /\ compile_result = "True"
    /\ domain_idx = 1
    /\ problem_files = << >>
    /\ prob_idx = 1
    /\ results = EmptyResults
    /\ hsp_ret = NoRet
    /\ child = 0
    /\ calls = << >>
    /\ ALL_RESULTS = << >>
    /\ plot_idx = 1
    /\ figures = {}
    /\ charts = << >>
    /\ last_run = NoRun
    /\ last_ret = NoRet
    /\ returns = << >>
    /\ output = << >>
    /\ parsed = None

NextSelect == CompareDomainBegin

SpecSelect == InitSelect /\ [][NextSelect]_vars

(***************************************************************************)
(* plot_results on its own: the registry a run leaves when blocksworld has *)
(* at most MaxPlotProblems problems and the other domains have none.       *)
(***************************************************************************)
\* (runtime, makespan) pairs of HSP: a failed call, or a measured runtime with or
\* without a plan
HspPairs ==
    {<<None, None>>, <<Some(1), Some(2)>>} \cup {<<Some(r), None>> : r \in 1 .. MaxRuntime}

SatPairs == {<<None, None>>, <<Some(1), None>>, <<Some(1), Some(2)>>}

\* the sequence compare_domain stores for one planner on problems p01 .. p0n, the
\* i-th call having returned v[i]
PlannerResults(n, v) == [i \in 1 .. n |-> <<ProblemNames[i], v[i][1], v[i][2]>>]

\* the registry after a run in which only blocksworld had problems
RegistryOf(h, s) ==
    <<[key |-> "blocksworld", value |-> [HSP |-> h, SAT |-> s]],
      [key |-> "depot", value |-> EmptyResults],
      [key |-> "gripper", value |-> EmptyResults],
      [key |-> "logistics", value |-> EmptyResults]>>

InitPlot ==
    /\ pc = "plot"
    /\ \E n \in 0 .. MaxPlotProblems :
          \E hv \in [1 .. n -> HspPairs], sv \in [1 .. n -> SatPairs] :
             ALL_RESULTS = RegistryOf(PlannerResults(n, hv), PlannerResults(n, sv))
    /\ plot_idx = 1
    /\ figures = {}
    /\ charts = << >>
    /\ exit_status = None
    /\ compile_result = "True"
    /\ listing = NoFiles
    /\ domain_idx = Len(BENCHMARKS) + 1
    /\ domain_name = BENCHMARKS[Len(BENCHMARKS)]
    /\ problem_files = << >>
    /\ prob_idx = 1
    /\ results = EmptyResults
    /\ hsp_ret = NoRet
    /\ child = 0
    /\ calls = << >>
    /\ last_run = NoRun
    /\ last_ret = NoRet
    /\ returns = << >>
    /\ output = << >>
    /\ parsed = None

NextPlot == PlotDomain \/ MainEnd

SpecPlot == InitPlot /\ [][NextPlot]_vars

(***************************************************************************)
(*                              Properties                                 *)
(***************************************************************************)
BuildFailed == compile_result \in {"False", "raised"}

BuildOk == compile_result = "True"

\* the problems compare_domain runs for domain d of this benchmark tree
Selected(d) == SelectProblemFiles(d, listing[d])

AllFigures ==
    {<<d, m>> : d \in {"blocksworld", "depot", "gripper", "logistics"},
                m \in {"runtime", "makespan"}}

\* the run is over: every domain compared, every chart written, exit status 0
Completed ==
    /\ pc = "exited"
    /\ exit_status = Some(0)
    /\ [i \in 1 .. Len(ALL_RESULTS) |-> ALL_RESULTS[i].key] = BENCHMARKS
    /\ \A i \in 1 .. Len(ALL_RESULTS) :
          /\ Len(ALL_RESULTS[i].value.HSP) = Len(Selected(ALL_RESULTS[i].key))
          /\ Len(ALL_RESULTS[i].value.SAT) = Len(Selected(ALL_RESULTS[i].key))
    /\ [i \in 1 .. Len(charts) |-> charts[i].domain_name] = BENCHMARKS
    /\ figures = AllFigures

\* C1: if the build step fails (the Maven or the Gradle build), no planner is ever
\* invoked, the plotting stage is never reached, and the process goes on to exit
\* with a non-zero status.
C1_BuildFailureAborts ==
    BuildFailed =>
        /\ calls = << >>
        /\ child = 0
        /\ charts = << >>
        /\ figures = {}
        /\ pc \in {"main_check", "exited"}
        /\ pc = "main_check" => exit_status = None /\ ENABLED MainAfterCompile
        /\ pc = "exited" => exit_status # None /\ exit_status[1] # 0

C1_Witness ==
    /\ compile_result = "False"
    /\ pc = "exited"
    /\ exit_status = Some(1)

TimedOut(run) == run.planner # "" /\ run.found /\ run.duration > TIMEOUT

RECURSIVE CallsFrom(_)
\* at most this many planner invocations are left for the domains BENCHMARKS[k],
\* BENCHMARKS[k+1], ...: two for each file that can be selected
CallsFrom(k) ==
    IF k > Len(BENCHMARKS) THEN 0
    ELSE 2 * Cardinality({f \in listing[BENCHMARKS[k]] : startswith_p(f)}) + CallsFrom(k + 1)

\* an upper bound on the steps left before the process has exited: two per planner
\* invocation, three per domain, one per chart pair, three around them
StepsToGo ==
    LET plotting == Len(BENCHMARKS) + 2
        domains(k) == 2 * CallsFrom(k) + 3 * (Len(BENCHMARKS) + 1 - k)
        problems == 4 * (Len(problem_files) + 1 - prob_idx)
    IN CASE pc = "exited" -> 0
         [] pc = "plot" -> Len(ALL_RESULTS) + 2 - plot_idx
         [] pc = "for_domain" -> domains(domain_idx) + plotting
         [] pc = "compare_domain" -> domains(domain_idx) - 1 + plotting
         [] pc = "for_problem" -> domains(domain_idx + 1) + 1 + problems + plotting
         [] pc = "hsp_wait" -> domains(domain_idx + 1) + problems + plotting
         [] pc = "sat_call" -> domains(domain_idx + 1) + problems - 1 + plotting
         [] pc = "sat_wait" -> domains(domain_idx + 1) + problems - 2 + plotting
         [] pc = "main_check" -> domains(1) + plotting + 1
         [] pc = "compile_hsp" -> domains(1) + plotting + 2
         [] pc = "compile_sat" -> domains(1) + plotting + 3

\* C2: if the build step succeeds the run always completes - every configured domain
\* compared, the plotting stage run, exit status zero - whichever planner invocations
\* time out or fail.  Stated for the single thread, which runs on while it can: once
\* the build has succeeded a step is always possible until the process has exited,
\* every step brings the exit nearer, and the process exits only with the run
\* completed.
C2_RunCompletes ==
    [][/\ StepsToGo >= 0 /\ StepsToGo' < StepsToGo
       /\ BuildOk' => /\ pc' = "exited" => Completed'
                      /\ pc' # "exited" => (ENABLED Next)']_vars

\* C2, as the behaviours of FairSpec: a successful build leads to the completed run
C2_LeadsToCompleted == BuildOk ~> Completed

\* a completed run in which every planner invocation failed or timed out
C2_Witness ==
    /\ Completed
    /\ Len(returns) >= 4
    /\ \A k \in 1 .. Len(returns) : returns[k][4] = None
    /\ TimedOut(last_run)

Absent(ret) == ~ret.raised /\ ret.runtime = None /\ ret.makespan = None

\* C3: a planner invocation whose child exceeds the 600-second timeout returns
\* (absent, absent) and raises nothing to its caller; the comparison loop goes on
\* with the next invocation.
C3_TimeoutYieldsAbsent ==
    TimedOut(last_run) =>
        /\ Absent(last_ret)
        /\ returns[Len(returns)][4] = None /\ returns[Len(returns)][5] = None
        /\ exit_status # Some(1)
        /\ (Len(calls) = Len(returns) /\ last_run.planner = "HSP") => pc = "sat_call"
        /\ (Len(calls) = Len(returns) /\ last_run.planner = "SAT") =>
               pc \in {"for_problem", "for_domain", "compare_domain", "plot", "exited"}

\* HSP has timed out and SAT is about to run on the same problem
C3_Witness ==
    /\ TimedOut(last_run)
    /\ last_run.planner = "HSP"
    /\ pc = "sat_call"
    /\ Absent(last_ret)

\* an execution failure other than a timeout: no executable, a non-zero exit status,
\* or output that does not decode
FailedOtherwise(run) ==
    /\ run.planner # ""
    /\ \/ ~run.found
       \/ run.found /\ run.duration <= TIMEOUT /\ (run.returncode # 0 \/ ~run.decodes)

\* C4: a planner invocation that ends in an execution failure other than a timeout
\* (missing executable, non-zero exit status, undecodable output) returns
\* (absent, absent); a non-zero exit never yields a runtime or a makespan.
C4_FailureYieldsAbsent == FailedOtherwise(last_run) => Absent(last_ret)

\* the largest element of a non-empty set of integers
Max(S) == CHOOSE x \in S : \A y \in S : y <= x

RECURSIVE Decimal(_)
\* the number a string of decimal digits denotes
Decimal(s) ==
    IF s = << >> THEN 0
    ELSE DigitValue(Head(s)) * (10 ^ (Len(s) - 1)) + Decimal(Tail(s))

\* the integers N such that line begins with N followed by a colon
LabelsOf(line) ==
    {Decimal(SubSeq(line, 1, k)) : k \in {n \in 1 .. Len(line) - 1 :
        /\ \A i \in 1 .. n : line[i] \in Digits
        /\ line[n + 1] = ":"}}

\* line without its leading and trailing whitespace
Trimmed(line) ==
    LET solid == {i \in 1 .. Len(line) : line[i] \notin Whitespace}
    IN IF solid = {} THEN << >>
       ELSE SubSeq(line, CHOOSE i \in solid : \A j \in solid : i <= j,
                         CHOOSE i \in solid : \A j \in solid : j <= i)

\* one plus the largest label, absent without a label
OnePlusMax(labels) == IF labels = {} THEN None ELSE Some(1 + Max(labels))

Candidates == {f \in listing[domain_name] : Len(f) >= 1 /\ f[1] = "p"}

\* the domain's configured instance limit, 5 for a domain without one
ConfiguredLimit ==
    CASE domain_name = "blocksworld" -> 10
      [] domain_name = "gripper" -> 4
      [] domain_name = "depot" -> 2
      [] domain_name = "logistics" -> 2
      [] OTHER -> 5

\* C6: compare_domain selects exactly the first min(limit, n) problem files in
\* lexicographic filename order among the n files of the domain directory whose name
\* starts with the problem prefix, limit being the domain's configured limit and 5
\* for a domain with none; no other file is selected.
C6_SelectsFirstFiles ==
    pc = "for_problem" =>
        LET chosen == {problem_files[i] : i \in 1 .. Len(problem_files)}
        IN /\ Len(problem_files) = Min(ConfiguredLimit, Cardinality(Candidates))
           /\ chosen \subseteq Candidates
           /\ \A i \in 1 .. Len(problem_files) - 1 :
                 StrLess(problem_files[i], problem_files[i + 1])
           /\ \A f \in Candidates \ chosen : \A g \in chosen : StrLess(g, f)

\* limit 2 with 5 files available: exactly the 2 first are selected
C6_Witness ==
    /\ pc = "for_problem"
    /\ domain_name = "depot"
    /\ Cardinality(Candidates) = 5
    /\ Len(problem_files) = 2
    /\ listing[domain_name] # Candidates

\* the result <<problem, runtime, makespan>> stored for problem name in sequence seq
StoredFor(seq, name) == seq[CHOOSE j \in 1 .. Len(seq) : seq[j][1] = name]

\* runtime a is not after runtime b in ascending order with absent last
NotAfter(a, b) == b = None \/ (a # None /\ a[1] <= b[1])

\* C7: for every domain of the registry the plotted x-axis order is the domain's
\* problems by ascending HSP runtime, every problem with an absent HSP runtime after
\* all those with a present one, and position i of each SAT series holds the SAT
\* result of the problem at position i of the x-axis.
C7_PlotOrder ==
    \A c \in 1 .. Len(charts) :
        LET reg == ALL_RESULTS[c].value
            x == charts[c].series.problem_names
        IN /\ charts[c].domain_name = ALL_RESULTS[c].key
           /\ Len(x) = Len(reg.HSP)
           /\ {x[i] : i \in 1 .. Len(x)} = {reg.HSP[i][1] : i \in 1 .. Len(reg.HSP)}
           /\ \A i, j \in 1 .. Len(x) :
                 i < j => NotAfter(StoredFor(reg.HSP, x[i])[2], StoredFor(reg.HSP, x[j])[2])
           /\ Len(charts[c].series.sat_runtimes) = Len(x)
           /\ Len(charts[c].series.sat_makespans) = Len(x)
           /\ \A i \in 1 .. Len(x) :
                 /\ charts[c].series.sat_runtimes[i] = StoredFor(reg.SAT, x[i])[2]
                 /\ charts[c].series.sat_makespans[i] = StoredFor(reg.SAT, x[i])[3]

\* HSP runtimes {p01: 2, p02: absent, p03: 1} are plotted in the order p03, p01, p02,
\* and the SAT results of the three problems differ
C7_Witness ==
    /\ Len(charts) >= 1
    /\ Len(ALL_RESULTS[1].value.HSP) = 3
    /\ [i \in 1 .. 3 |-> ALL_RESULTS[1].value.HSP[i][2]] = <<Some(2), None, Some(1)>>
    /\ charts[1].series.problem_names = <<ProblemNames[3], ProblemNames[1], ProblemNames[2]>>
    /\ [i \in 1 .. 3 |-> <<ALL_RESULTS[1].value.SAT[i][2], ALL_RESULTS[1].value.SAT[i][3]>>]
          = <<<<None, None>>, <<Some(1), None>>, <<Some(1), Some(2)>>>>
    /\ charts[1].series.sat_makespans = <<Some(2), None, None>>

\* the series of planner in a chart
RuntimesOf(chart, planner) ==
    IF planner = "HSP" THEN chart.series.hsp_runtimes ELSE chart.series.sat_runtimes

MakespansOf(chart, planner) ==
    IF planner = "HSP" THEN chart.series.hsp_makespans ELSE chart.series.sat_makespans

\* C8: absent values are never turned into zero or any other number: for every
\* (planner, problem) pair whose invocation returned an absent runtime or an absent
\* makespan, the entry stored in the registry and the point of the series handed to
\* the chart are absent.
C8_AbsentStaysAbsent ==
    \A k \in 1 .. Len(returns) :
        LET planner == returns[k][1]
            domain == returns[k][2]
            problem == returns[k][3]
        IN /\ \A r \in 1 .. Len(ALL_RESULTS) :
                 ALL_RESULTS[r].key = domain =>
                    \E j \in 1 .. Len(ALL_RESULTS[r].value[planner]) :
                       LET stored == ALL_RESULTS[r].value[planner][j]
                       IN /\ stored[1] = problem
                          /\ returns[k][4] = None => stored[2] = None
                          /\ returns[k][5] = None => stored[3] = None
           /\ \A c \in 1 .. Len(charts) :
                 charts[c].domain_name = domain =>
                    \E i \in 1 .. Len(charts[c].series.problem_names) :
                       /\ charts[c].series.problem_names[i] = problem
                       /\ returns[k][4] = None => RuntimesOf(charts[c], planner)[i] = None
                       /\ returns[k][5] = None => MakespansOf(charts[c], planner)[i] = None

\* HSP failed on the first of two problems and ran on the second, SAT ran on the
\* first without finding a plan: the chart has the two problems swapped, the absent
\* HSP runtime last and the absent SAT makespan with it
C8_Witness ==
    /\ pc = "exited"
    /\ Len(returns) >= 4
    /\ returns[1][1] = "HSP" /\ returns[1][4] = None
    /\ returns[2][1] = "SAT" /\ returns[2][4] # None /\ returns[2][5] = None
    /\ returns[3][2] = returns[1][2] /\ returns[3][4] # None
    /\ \E c \in 1 .. Len(charts) :
          /\ charts[c].domain_name = returns[1][2]
          /\ charts[c].series.problem_names = <<returns[3][3], returns[1][3]>>
          /\ charts[c].series.hsp_runtimes[2] = None
          /\ charts[c].series.sat_makespans[2] = None

\* C9: two runs on an unchanged benchmark directory, the build succeeding, produce
\* the same set of chart files whatever the runtimes and planner outcomes: a run
\* that ends after a successful build has written exactly two image files per
\* configured domain, one for the runtime and one for the makespan, and a run never
\* writes any other file.
C9_SameChartFiles ==
    /\ figures \subseteq AllFigures
    /\ (BuildOk /\ pc = "exited") => figures = AllFigures /\ Cardinality(figures) = 2 * Len(BENCHMARKS)

\* a run has ended with its charts written, one planner call having failed and
\* another having found a plan
C9_Witness ==
    /\ pc = "exited"
    /\ BuildOk
    /\ figures = AllFigures
    /\ \E k \in 1 .. Len(returns) : returns[k][4] = None
    /\ \E k \in 1 .. Len(returns) : returns[k][5] # None

RECURSIVE CallsOfProblems(_, _, _)
\* HSP(p_i), SAT(p_i), HSP(p_i+1), SAT(p_i+1), ... over the problems of domain d
CallsOfProblems(d, problems, i) ==
    IF i > Len(problems) THEN << >>
    ELSE <<<<"HSP", d, problems[i]>>, <<"SAT", d, problems[i]>>>>
            \o CallsOfProblems(d, problems, i + 1)

RECURSIVE CallsOfDomains(_)
\* the invocations of a whole run from domain BENCHMARKS[k] on
CallsOfDomains(k) ==
    IF k > Len(BENCHMARKS) THEN << >>
    ELSE CallsOfProblems(BENCHMARKS[k], Selected(BENCHMARKS[k]), 1) \o CallsOfDomains(k + 1)

IsPrefix(a, b) == Len(a) <= Len(b) /\ a = SubSeq(b, 1, Len(a))

\* C10: the planner invocations of a run are exactly HSP(p1), SAT(p1), HSP(p2),
\* SAT(p2), ... over the selected problems of each domain in selection order, one
\* domain at a time, each pair invoked once (no retry, SAT still invoked when HSP
\* failed); at most one child process runs at any time; and the two result sequences
\* stored for a domain have one entry per selected problem in that order.
C10_SequentialInvocations ==
    /\ child \in {0, 1}
    /\ Len(calls) - Len(returns) = child
    /\ IsPrefix(calls, CallsOfDomains(1))
    /\ \A k \in 1 .. Len(returns) :
          <<returns[k][1], returns[k][2], returns[k][3]>> = calls[k]
    /\ (BuildOk /\ pc \in {"plot", "exited"}) => calls = CallsOfDomains(1)
    /\ \A r \in 1 .. Len(ALL_RESULTS) :
          /\ [i \in 1 .. Len(ALL_RESULTS[r].value.HSP) |-> ALL_RESULTS[r].value.HSP[i][1]]
                = Selected(ALL_RESULTS[r].key)
          /\ [i \in 1 .. Len(ALL_RESULTS[r].value.SAT) |-> ALL_RESULTS[r].value.SAT[i][1]]
                = Selected(ALL_RESULTS[r].key)

\* a domain with two problems: HSP returned no runtime on the first, SAT was still invoked on
\* it, and both planners then ran on the second
C10_Witness ==
    /\ pc = "exited"
    /\ Len(calls) >= 4
    /\ returns[1][4] = None
    /\ calls[1][1] = "HSP" /\ calls[2][1] = "SAT" /\ calls[2][3] = calls[1][3]
    /\ calls[3][1] = "HSP" /\ calls[4][1] = "SAT" /\ calls[3][3] # calls[1][3]
    /\ calls[3][2] = calls[1][2]

====
